---- MODULE Spec2Model ----
(***************************************************************************)
(* Request-gateway core of the Twelve Data proxy (main.py): the quota      *)
(* middleware track_requests, the upstream dispatcher                      *)
(* fetch_from_twelvedata and the indicator gate of                         *)
(* get_technical_indicator.                                                *)
(*                                                                         *)
(* Text (paths, indicator names, endpoints) is a sequence of one-character *)
(* strings, so that str.startswith and str.lower are computed.  A response *)
(* body is a sequence of lexical units (JSON tokens or other characters).  *)
(***************************************************************************)
EXTENDS Integers, Sequences, FiniteSets, TLC

VARIABLES
  now,            \* the wall clock read by time.time(), in seconds
  request_count,  \* global request_count
  last_reset,     \* global last_reset
  billable,       \* history: data-route requests seen by the middleware since the last reset
  pending,        \* per path, the admitted requests waiting at `await call_next`
  response,       \* the last response sent at the boundary
  call            \* the last direct invocation of fetch_from_twelvedata

vars == <<now, request_count, last_reset, billable, pending, response, call>>

----------------------------------------------------------------------------
(* Program constants *)

API_KEY == "TWELVEDATA_API_KEY"

BASE_URL == "https://api.twelvedata.com"

REQUEST_LIMIT == 750

DAY_SECONDS == 86400

DETAIL_LIMIT == 200

TECHNICAL_INDICATORS ==
  <<
  <<"a","d">>, <<"a","d","o","s","c">>, <<"a","d","x">>, <<"a","d","x","r">>, <<"a","o">>,
  <<"a","p","o">>, <<"a","r","o","o","n">>, <<"a","r","o","o","n","o","s","c">>,
  <<"a","t","r">>, <<"a","v","g","p","r","i","c","e">>, <<"b","b","a","n","d","s">>,
  <<"b","o","p">>, <<"c","c","i">>, <<"c","m","o">>, <<"c","v","i">>, <<"d","e","m","a">>,
  <<"d","i">>, <<"d","m">>, <<"d","m","i">>, <<"d","p","o">>, <<"d","x">>, <<"e","m","a">>,
  <<"e","o","m">>, <<"f","i","s","h","e","r">>, <<"f","o","s","c">>, <<"h","m","a">>,
  <<"i","c","h","i","m","o","k","u">>, <<"i","m","i">>, <<"k","a","m","a">>, <<"k","v","o">>,
  <<"l","i","n","e","a","r","r","e","g">>, <<"m","a">>, <<"m","a","c","d">>,
  <<"m","a","c","d","e","x","t">>, <<"m","a","m","a">>, <<"m","f","i">>,
  <<"m","i","d","p","o","i","n","t">>, <<"m","i","d","p","r","i","c","e">>, <<"m","o","m">>,
  <<"n","a","t","r">>, <<"o","b","v">>, <<"p","e","r","c","e","n","t","_","b">>,
  <<"p","p","o">>, <<"r","o","c">>, <<"r","o","c","p">>, <<"r","o","c","r">>, <<"r","s","i">>,
  <<"s","a","r">>, <<"s","m","a">>, <<"s","m","m","a">>, <<"s","r","s","i">>,
  <<"s","t","d","d","e","v">>, <<"s","t","o","c","h">>, <<"s","t","o","c","h","r","s","i">>,
  <<"s","u","p","e","r","t","r","e","n","d">>, <<"t","3">>, <<"t","e","m","a">>,
  <<"t","r","a","n","g","e">>, <<"t","r","i","m","a">>, <<"t","r","i","x">>, <<"t","s","f">>,
  <<"t","y","p","p","r","i","c","e">>, <<"u","l","t","o","s","c">>, <<"v","b","m">>,
  <<"v","i">>, <<"v","i","d","y","a">>, <<"v","o","l","a","t","i","l","i","t","y">>,
  <<"v","o","s","c">>, <<"v","w","a","p">>, <<"v","w","m","a">>,
  <<"w","c","l","p","r","i","c","e">>, <<"w","i","l","d","e","r","s">>, <<"w","i","l","l","r">>,
  <<"w","m","a">>, <<"z","l","e","m","a">>
  >>

----------------------------------------------------------------------------
(* Bounds of the model *)

NumReq == 2

MaxTime == 86402

MaxBillable == 2

LongLen == 201

TickSteps == {DAY_SECONDS \div 2, DAY_SECONDS \div 2 + 1}

ClockDrift == {0, 1}

----------------------------------------------------------------------------
(* Text *)

PathRoot == <<"/">>

PathDocs == <<"/","d","o","c","s">>

PathOpenapi == <<"/","o","p","e","n","a","p","i",".","j","s","o","n">>

PathRedoc == <<"/","r","e","d","o","c">>

PathFavicon == <<"/","f","a","v","i","c","o","n",".","i","c","o">>

PathPrice == <<"/","p","r","i","c","e">>

PathIndicators == <<"/","i","n","d","i","c","a","t","o","r","s","/">>

EndpointPrice == <<"p","r","i","c","e">>

UpperCase ==
  <<"A","B","C","D","E","F","G","H","I","J","K","L","M",
    "N","O","P","Q","R","S","T","U","V","W","X","Y","Z">>

LowerCase ==
  <<"a","b","c","d","e","f","g","h","i","j","k","l","m",
    "n","o","p","q","r","s","t","u","v","w","x","y","z">>

\* str.lower() on one character
LowerChar(c) ==
  IF \E i \in DOMAIN UpperCase : UpperCase[i] = c
  THEN LowerCase[CHOOSE i \in DOMAIN UpperCase : UpperCase[i] = c]
  ELSE c

\* str.lower()
Lower(s) == [i \in DOMAIN s |-> LowerChar(s[i])]

\* str.startswith(prefix)
StartsWith(s, prefix) ==
  /\ Len(prefix) <= Len(s)
  /\ SubSeq(s, 1, Len(prefix)) = prefix

\* str.startswith(tuple of prefixes)
StartsWithAny(s, prefixes) ==
  \E i \in DOMAIN prefixes : StartsWith(s, prefixes[i])

\* the text kept whole
Truncate_Whole(text, n) == text

\* text[:n]
Truncate(text, n) == SubSeq(text, 1, IF Len(text) < n THEN Len(text) ELSE n)

\* x in list
InList(x, list) == \E i \in DOMAIN list : list[i] = x

----------------------------------------------------------------------------
(* Optional values and parameter mappings *)

None == << >>

Some(x) == <<x>>

EmptyParams == [k \in {} |-> ""]

Put(m, k, v) == [x \in (DOMAIN m) \cup {k} |-> IF x = k THEN v ELSE m[x]]

\* truth value of an Optional[str]
TruthyStr(opt) == opt # None /\ opt[1] # ""

\* truth value of an Optional[int]
TruthyInt(opt) == opt # None /\ opt[1] # 0

PutIfStr(m, k, opt) == IF TruthyStr(opt) THEN Put(m, k, opt[1]) ELSE m

PutIfInt(m, k, opt) == IF TruthyInt(opt) THEN Put(m, k, opt[1]) ELSE m

----------------------------------------------------------------------------
(* JSON: response.json() over the lexical units of a body *)

StringToks ==
  {"\"message\"", "\"foo\"", "\"bar\"", "\"values\"", "\"symbol not found\""}

NumberToks == {"1", "2", "3"}

ScalarToks == StringToks \cup NumberToks

\* the Python str held by a JSON string literal
Unquote(tok) ==
  CASE tok = "\"message\"" -> "message"
    [] tok = "\"foo\"" -> "foo"
    [] tok = "\"bar\"" -> "bar"
    [] tok = "\"values\"" -> "values"
    [] tok = "\"symbol not found\"" -> "symbol not found"
    [] OTHER -> tok

NoValue == [type |-> "none"]

ParseFail == [ok |-> FALSE, val |-> NoValue, next |-> 0]

ParseOk(v, n) == [ok |-> TRUE, val |-> v, next |-> n]

At(toks, i) == IF i \in DOMAIN toks THEN toks[i] ELSE "<eof>"

RECURSIVE ParseValue(_, _)
RECURSIVE ParseItems(_, _, _)
RECURSIVE ParseMembers(_, _, _)

ParseItems(toks, i, acc) ==
  LET v == ParseValue(toks, i) IN
  IF ~ v.ok THEN ParseFail
  ELSE IF At(toks, v.next) = ","
       THEN ParseItems(toks, v.next + 1, Append(acc, v.val))
  ELSE IF At(toks, v.next) = "]"
       THEN ParseOk([type |-> "array", items |-> Append(acc, v.val)], v.next + 1)
  ELSE ParseFail

ParseMembers(toks, i, acc) ==
  IF ~ (At(toks, i) \in StringToks /\ At(toks, i + 1) = ":") THEN ParseFail
  ELSE LET v == ParseValue(toks, i + 2)
           m == [key |-> Unquote(toks[i]), val |-> v.val]
       IN IF ~ v.ok THEN ParseFail
          ELSE IF At(toks, v.next) = ","
               THEN ParseMembers(toks, v.next + 1, Append(acc, m))
          ELSE IF At(toks, v.next) = "}"
               THEN ParseOk([type |-> "object", members |-> Append(acc, m)], v.next + 1)
          ELSE ParseFail

ParseValue(toks, i) ==
  IF At(toks, i) \in ScalarToks
    THEN ParseOk([type |-> "scalar", tok |-> toks[i]], i + 1)
  ELSE IF At(toks, i) = "["
    THEN IF At(toks, i + 1) = "]"
         THEN ParseOk([type |-> "array", items |-> << >>], i + 2)
         ELSE ParseItems(toks, i + 1, << >>)
  ELSE IF At(toks, i) = "{"
    THEN IF At(toks, i + 1) = "}"
         THEN ParseOk([type |-> "object", members |-> << >>], i + 2)
         ELSE ParseMembers(toks, i + 1, << >>)
  ELSE ParseFail

\* response.json(): the parsed value, or a decoding error
Json(text) ==
  LET p == ParseValue(text, 1) IN
  IF p.ok /\ p.next = Len(text) + 1 THEN p ELSE ParseFail

\* isinstance(v, dict) and key in v
HasKey(v, key) ==
  /\ v.type = "object"
  /\ \E i \in DOMAIN v.members : v.members[i].key = key

\* v[key]: the last member under the key wins
Lookup(v, key) ==
  LET last == CHOOSE i \in DOMAIN v.members :
                /\ v.members[i].key = key
                /\ \A j \in DOMAIN v.members : v.members[j].key = key => j <= i
  IN v.members[last].val

RECURSIVE Render(_)
RECURSIVE RenderSeq(_, _)

\* the elements of a container, rendered and separated by commas
RenderSeq(parts, i) ==
  IF i > Len(parts) THEN << >>
  ELSE (IF i > 1 THEN <<",">> ELSE << >>) \o parts[i] \o RenderSeq(parts, i + 1)

\* the text an f-string interpolates for a parsed value
Render(v) ==
  CASE v.type = "scalar" -> <<Unquote(v.tok)>>
    [] v.type = "array" ->
         <<"[">> \o RenderSeq([i \in DOMAIN v.items |-> Render(v.items[i])], 1) \o <<"]">>
    [] v.type = "object" ->
         <<"{">> \o RenderSeq([i \in DOMAIN v.members |->
                      <<v.members[i].key, ":">> \o Render(v.members[i].val)], 1) \o <<"}">>
    [] OTHER -> << >>

----------------------------------------------------------------------------
(* Upstream provider: what requests.get can produce *)

Response(code, text) == [kind |-> "response", status_code |-> code, text |-> text]

RequestException(msg) == [kind |-> "RequestException", status_code |-> 0, text |-> msg]

BodyValues == <<"{", "\"values\"", ":", "[", "1", ",", "2", ",", "3", "]", "}">>

BodyMessage == <<"{", "\"message\"", ":", "\"symbol not found\"", "}">>

BodyFoo == <<"{", "\"foo\"", ":", "\"bar\"", "}">>

BodyTwoMessages ==
  <<"{", "\"message\"", ":", "\"foo\"", ",", "\"message\"", ":", "[", "1", "]", "}">>

BodyArray == <<"[", "\"message\"", "]">>

BodyCsv == <<"p", "r", "i", "c", "e", ";", "1">>

BodyLong == [i \in 1..LongLen |-> "x"]

Bodies ==
  {BodyValues, BodyMessage, BodyFoo, BodyTwoMessages, BodyArray, BodyCsv, BodyLong}

StatusCodes == {200, 400, 401, 404, 429, 500}

Upstreams ==
  {Response(c, b) : c \in StatusCodes, b \in Bodies}
    \cup {RequestException(<<"connection refused">>)}

\* the upstream answers drawn while serving inbound requests
ServedUpstreams ==
  { Response(200, BodyValues), Response(400, BodyMessage),
    RequestException(<<"connection refused">>) }

----------------------------------------------------------------------------
(* fetch_from_twelvedata *)

HTTPException(code, prefix, text) ==
  [kind |-> "HTTPException", status_code |-> code,
   detail |-> [prefix |-> prefix, text |-> text]]

Returned(v) == [kind |-> "return", value |-> v]

\* an exception that no handler of the application catches
Unhandled(name) == [kind |-> "unhandled", exception |-> name]

\* the key set only when the caller gave none
InjectKey_KeepCaller(params) ==
  LET p == IF params = None THEN EmptyParams ELSE params[1]
  IN IF "apikey" \in DOMAIN p THEN p ELSE Put(p, "apikey", API_KEY)

\* params["apikey"] = API_KEY, after params = {} for None
InjectKey(params) ==
  Put(IF params = None THEN EmptyParams ELSE params[1], "apikey", API_KEY)

\* the 400 branch without the fallback on response.text
ErrorMessage400_NoFallback(text) ==
  LET error_data == Json(text) IN
  IF error_data.ok /\ HasKey(error_data.val, "message")
  THEN Render(Lookup(error_data.val, "message"))
  ELSE <<"Bad Request">>

\* error_message of the 400 branch
ErrorMessage400(text) ==
  LET error_data == Json(text) IN
  IF ~ error_data.ok THEN text
  ELSE IF HasKey(error_data.val, "message")
       THEN Render(Lookup(error_data.val, "message"))
       ELSE <<"Bad Request">>

\* the HTTPException raised for a non-200 status
StatusError(up) ==
  CASE up.status_code = 400 ->
         HTTPException(400, "Bad Request: ", ErrorMessage400(up.text))
    [] up.status_code = 401 ->
         HTTPException(401, "Invalid API key or unauthorized access", << >>)
    [] up.status_code = 429 ->
         HTTPException(429, "Rate limit exceeded. Please try again later. Free plan limited to 800 requests per day.", << >>)
    [] OTHER ->
         HTTPException(up.status_code, "Unexpected Error: ", Truncate(up.text, DETAIL_LIMIT))

\* except requests.RequestException
ConnectionError(msg) == HTTPException(500, "Connection Error: ", msg)

\* The ways the try block can end.  response.json() on a body that is not
\* JSON raises a decoding error which is a requests.RequestException in some
\* releases of the library and a plain ValueError in others.
Outcomes(up) ==
  IF up.kind = "RequestException" THEN {ConnectionError(up.text)}
  ELSE IF up.status_code = 200
       THEN IF Json(up.text).ok
            THEN {Returned(Json(up.text).val)}
            ELSE {ConnectionError(<<"JSONDecodeError">>), Unhandled("JSONDecodeError")}
  ELSE {StatusError(up)}

\* the outbound GETs of one call
OutboundGets(endpoint, params) ==
  << [url |-> <<BASE_URL, "/">> \o endpoint, params |-> InjectKey(params)] >>

fetch_from_twelvedata(endpoint, params, up) ==
  [endpoint |-> endpoint, params |-> params, upstream |-> up,
   gets |-> OutboundGets(endpoint, params), outcomes |-> Outcomes(up)]

----------------------------------------------------------------------------
(* Routing and the responses at the boundary *)

Paths ==
  { PathRoot, PathDocs, PathFavicon, PathPrice,
    PathIndicators \o <<"r","s","i">>,
    PathIndicators \o <<"R","S","I">>,
    PathIndicators \o <<"x","y","z">> }

Formats == {"JSON", "CSV"}

FastPeriods == {None, Some(12)}

Exchanges == {None, Some("NASDAQ")}

\* the path parameter of /indicators/{indicator}
IndicatorOf(path) == SubSeq(path, Len(PathIndicators) + 1, Len(path))

Route(path) ==
  CASE path = PathRoot -> "home"
    [] path \in {PathDocs, PathOpenapi, PathRedoc} -> "docs"
    [] path = PathPrice -> "get_price"
    [] /\ StartsWith(path, PathIndicators)
       /\ Len(path) > Len(PathIndicators)
       /\ ~ InList("/", IndicatorOf(path)) -> "get_technical_indicator"
    [] OTHER -> "not_found"

NoResponse == [path |-> << >>, status |-> 0, body |-> [kind |-> "none"], gets |-> << >>]

NoCall == [endpoint |-> << >>, gets |-> << >>]

RECURSIVE SumOver(_, _)
SumOver(f, S) ==
  IF S = {} THEN 0
  ELSE LET x == CHOOSE y \in S : TRUE IN f[x] + SumOver(f, S \ {x})

\* the number of requests between the middleware and their route handler
InFlight == SumOver(pending, DOMAIN pending)

\* what the framework sends for the way a route handler ended
Respond(path, outcome, gets) ==
  CASE outcome.kind = "return" ->
         [path |-> path, status |-> 200,
          body |-> [kind |-> "json", value |-> outcome.value], gets |-> gets]
    [] outcome.kind = "HTTPException" ->
         [path |-> path, status |-> outcome.status_code,
          body |-> [kind |-> "detail", detail |-> outcome.detail], gets |-> gets]
    [] OTHER ->
         [path |-> path, status |-> 500,
          body |-> [kind |-> "Internal Server Error"], gets |-> gets]

----------------------------------------------------------------------------
(* The quota middleware *)

\* the paths the quota is documented not to count
AdministrativePaths == {PathRoot, PathDocs, PathOpenapi, PathRedoc, PathFavicon}

IsDataRoute(path) == path \notin AdministrativePaths

\* request.url.path.startswith((...)) of the counting condition
IsExcluded(path) ==
  StartsWithAny(path, <<PathDocs, PathOpenapi, PathRedoc, PathFavicon, PathRoot>>)

\* the comparison with the boundary included
ResetDue_Inclusive(t) == t - last_reset >= DAY_SECONDS

\* time.time() - last_reset > 86400
ResetDue(t) == t - last_reset > DAY_SECONDS

QuotaExceeded(count) == count > REQUEST_LIMIT

LimitReached(path) ==
  [path |-> path, status |-> 429,
   body |-> [kind |-> "detail",
             detail |-> [prefix |-> "Daily request limit reached. Please try again tomorrow.",
                         text |-> << >>]],
   gets |-> << >>]

\* request_count after the reset check and the counting of one request
Counted(path, reset) ==
  LET base == IF reset THEN 0 ELSE request_count
  IN IF IsExcluded(path) THEN base ELSE base + 1

\* One inbound request passes the middleware up to `await call_next`: the
\* body has no suspension point before it, so it is one step.  The clock
\* is read once for the test and once more for the new last_reset.
track_requests ==
  /\ InFlight < NumReq
  /\ \E path \in Paths, drift \in ClockDrift :
       LET reset == ResetDue(now)
           t2 == IF reset THEN now + drift ELSE now
           count == Counted(path, reset)
           rejected == ~ IsExcluded(path) /\ QuotaExceeded(count)
           seen == IF reset THEN 0 ELSE billable
       IN /\ t2 <= MaxTime                          \* bound on the clock
          /\ reset \/ drift = 0                      \* the second reading exists only on a reset
          /\ IsDataRoute(path) => seen < MaxBillable \* bound on the history counter
          /\ now' = t2
          /\ last_reset' = IF reset THEN t2 ELSE last_reset
          /\ request_count' = count
          /\ billable' = IF IsDataRoute(path) /\ ~ rejected THEN seen + 1 ELSE seen
          /\ IF rejected
             THEN /\ response' = LimitReached(path)
                  /\ pending' = pending
             ELSE /\ pending' = [pending EXCEPT ![path] = @ + 1]
                  /\ response' = response
  /\ UNCHANGED call

----------------------------------------------------------------------------
(* Route handlers *)

Finish(path, resp) ==
  /\ response' = resp
  /\ pending' = [pending EXCEPT ![path] = @ - 1]
  /\ UNCHANGED <<now, request_count, last_reset, billable, call>>

AtRoute(path, name) == pending[path] > 0 /\ Route(path) = name

home(path) ==
  /\ AtRoute(path, "home")
  /\ Finish(path, [path |-> path, status |-> 200,
                body |-> [kind |-> "home", requests_today |-> request_count,
                          daily_limit |-> REQUEST_LIMIT,
                          supported_indicators |-> TECHNICAL_INDICATORS],
                gets |-> << >>])

\* the documentation pages the framework serves
docs(path) ==
  /\ AtRoute(path, "docs")
  /\ Finish(path, [path |-> path, status |-> 200,
                body |-> [kind |-> "docs"], gets |-> << >>])

\* no route matches the path
not_found(path) ==
  /\ AtRoute(path, "not_found")
  /\ Finish(path, [path |-> path, status |-> 404,
                body |-> [kind |-> "detail",
                          detail |-> [prefix |-> "Not Found", text |-> << >>]],
                gets |-> << >>])

PriceParams(symbol, exchange, format) ==
  PutIfStr([symbol |-> symbol, format |-> format], "exchange", exchange)

get_price(path) ==
  /\ AtRoute(path, "get_price")
  /\ \E format \in Formats, exchange \in Exchanges, up \in ServedUpstreams :
       LET f == fetch_from_twelvedata(EndpointPrice,
                                      Some(PriceParams("AAPL", exchange, format)), up)
       IN \E o \in f.outcomes : Finish(path, Respond(path, o, f.gets))

\* the membership test without lower()
IsSupported_CaseSensitive(indicator) == InList(indicator, TECHNICAL_INDICATORS)

\* indicator.lower() in TECHNICAL_INDICATORS
IsSupported(indicator) == InList(Lower(indicator), TECHNICAL_INDICATORS)

Unsupported(indicator) ==
  [kind |-> "HTTPException", status_code |-> 400,
   detail |-> [prefix |-> "Unsupported indicator: ", text |-> indicator,
               supported |-> TECHNICAL_INDICATORS]]

IndicatorParams(symbol, format, fast_period, slow_period, signal_period, ma_type) ==
  PutIfStr(
    PutIfInt(
      PutIfInt(
        PutIfInt([symbol |-> symbol, interval |-> "1day", outputsize |-> 30,
                  time_period |-> 14, series_type |-> "close", format |-> format],
                 "fast_period", fast_period),
        "slow_period", slow_period),
      "signal_period", signal_period),
    "ma_type", ma_type)

get_technical_indicator(path) ==
  /\ AtRoute(path, "get_technical_indicator")
  /\ LET indicator == IndicatorOf(path) IN
     IF ~ IsSupported(indicator)
     THEN Finish(path, Respond(path, Unsupported(indicator), << >>))
     ELSE \E format \in Formats, fast_period \in FastPeriods, up \in ServedUpstreams :
            LET f == fetch_from_twelvedata(indicator,
                       Some(IndicatorParams("AAPL", format, fast_period, None, None, None)),
                       up)
            IN \E o \in f.outcomes : Finish(path, Respond(path, o, f.gets))

\* time passes
Tick ==
  /\ \E d \in TickSteps : now + d <= MaxTime /\ now' = now + d
  /\ UNCHANGED <<request_count, last_reset, billable, pending, response, call>>

----------------------------------------------------------------------------
(* The server *)

Init ==
  /\ now = 0
  /\ request_count = 0
  /\ last_reset = 0
  /\ billable = 0
  /\ pending = [path \in Paths |-> 0]
  /\ response = NoResponse
  /\ call = NoCall

Next ==
  \/ Tick
  \/ track_requests
  \/ \E path \in Paths : home(path)
  \/ \E path \in Paths : docs(path)
  \/ \E path \in Paths : not_found(path)
  \/ \E path \in Paths : get_price(path)
  \/ \E path \in Paths : get_technical_indicator(path)

Spec == Init /\ [][Next]_vars

----------------------------------------------------------------------------
(* fetch_from_twelvedata called on its own *)

Endpoints == {EndpointPrice, <<"R","S","I">>}

CallParams ==
  { None,
    Some(EmptyParams),
    Some(PriceParams("AAPL", Some("NASDAQ"), "CSV")),
    Some(IndicatorParams("AAPL", "JSON", Some(12), None, None, Some("EMA"))),
    Some([symbol |-> "AAPL", apikey |-> "caller-key"]) }

Call ==
  /\ \E endpoint \in Endpoints, params \in CallParams, up \in Upstreams :
       LET f == fetch_from_twelvedata(endpoint, params, up)
       IN \E o \in f.outcomes :
            call' = [endpoint |-> endpoint, params |-> params, upstream |-> up,
                     gets |-> f.gets, outcome |-> o]
  /\ UNCHANGED <<now, request_count, last_reset, billable, pending, response>>

FetchNext == Call

FetchSpec == Init /\ [][FetchNext]_vars

----------------------------------------------------------------------------
(* Properties *)

\* the middleware has just passed a request for this path on to call_next
Admitted(path) == pending'[path] = pending[path] + 1

\* a route handler has just answered a request for this path
Answered(path) == pending'[path] = pending[path] - 1

\* request_count once the reset check of the step has run
AfterResetCheck == IF now - last_reset > DAY_SECONDS THEN 0 ELSE request_count

Called == call.gets # << >>

\* C1: every data-route request increments request_count, a request whose
\* incremented count exceeds REQUEST_LIMIT is not passed on, and at most
\* REQUEST_LIMIT data-route requests are forwarded in one window.
C1_QuotaCap ==
  /\ [][\A path \in Paths :
          IsDataRoute(path) /\ Admitted(path)
            => /\ request_count' = AfterResetCheck + 1
               /\ request_count' <= REQUEST_LIMIT]_vars
  /\ [](billable <= REQUEST_LIMIT)

\* C2: after N data-route requests were admitted in the window, request_count
\* is exactly N, under every interleaving of the requests in flight.
C2_CountEqualsAdmitted == request_count = billable

\* C3: a request to an administrative path leaves request_count alone and is
\* never answered with the quota rejection, and a request to any other path
\* is counted.
C3_Exemption ==
  /\ [][\A path \in Paths :
          Admitted(path)
            => (path \in AdministrativePaths <=> request_count' = AfterResetCheck)]_vars
  /\ [](response = LimitReached(response.path) => IsDataRoute(response.path))

\* C4 as stated: a request met by the middleware when now - last_reset >= 86400
\* (86400 included) sets last_reset to now and leaves request_count at most 1,
\* and request_count decreases in no other step.
C4_ResetAtBoundary ==
  /\ [][\A path \in Paths :
          Admitted(path) /\ now - last_reset >= DAY_SECONDS
            => last_reset' = now' /\ request_count' <= 1]_vars
  /\ [][request_count' < request_count => now - last_reset >= DAY_SECONDS]_vars

\* C4 amended: a request met by the middleware when now - last_reset > 86400,
\* whatever its path, sets last_reset to now and leaves request_count at most
\* 1; up to and including 86400 seconds last_reset stays; and request_count
\* decreases in no other step.
C4_Reset ==
  /\ [][\A path \in Paths :
          Admitted(path)
            => IF now - last_reset > DAY_SECONDS
               THEN last_reset' = now' /\ request_count' <= 1
               ELSE last_reset' = last_reset /\ request_count' >= request_count]_vars
  /\ [][request_count' < request_count => now - last_reset > DAY_SECONDS]_vars

\* a request has been admitted by a middleware step that reset the window
C4_Witness == last_reset > DAY_SECONDS /\ now = last_reset /\ InFlight > 0

\* C5: the error of fetch_from_twelvedata is 400 for upstream 400, 401 and
\* 429 with their fixed details for upstream 401 and 429, the upstream code
\* with the first 200 characters of the body for any other non-200 code, and
\* 500 for a transport failure.
C5_StatusMapping ==
  Called /\ ~ (call.upstream.kind = "response" /\ call.upstream.status_code = 200) =>
    LET up == call.upstream
        o == call.outcome
        n == IF Len(up.text) < 200 THEN Len(up.text) ELSE 200
    IN /\ o.kind = "HTTPException"
       /\ o.status_code = IF up.kind = "RequestException" THEN 500 ELSE up.status_code
       /\ up.status_code = 401 =>
            o.detail = [prefix |-> "Invalid API key or unauthorized access", text |-> << >>]
       /\ up.status_code = 429 =>
            o.detail = [prefix |-> "Rate limit exceeded. Please try again later. Free plan limited to 800 requests per day.",
                        text |-> << >>]
       /\ up.kind = "response" /\ up.status_code \notin {400, 401, 429} =>
            /\ Len(o.detail.text) = n
            /\ \A i \in 1..n : o.detail.text[i] = up.text[i]

\* an upstream failure with a body of more than 200 characters was translated
C5_Witness ==
  /\ Called
  /\ call.upstream.status_code = 500
  /\ Len(call.upstream.text) > 200

\* C6 as stated: on upstream 400 the message is the `message` field of a JSON
\* object body, and the raw body text in every other case.
C6_RawBodyFallback ==
  Called /\ call.upstream.status_code = 400 =>
    LET text == call.upstream.text
        body == Json(text)
    IN call.outcome.detail.text =
         IF body.ok /\ HasKey(body.val, "message")
         THEN Render(Lookup(body.val, "message"))
         ELSE text

\* C6 amended: on upstream 400 the message is the `message` field of a JSON
\* object body; the raw body text when the body is not JSON; and the fixed
\* text "Bad Request" when the body is JSON without such a field.
C6_Message400 ==
  Called /\ call.upstream.status_code = 400 =>
    LET text == call.upstream.text
        body == Json(text)
    IN /\ call.outcome.detail.prefix = "Bad Request: "
       /\ call.outcome.detail.text =
            IF ~ body.ok THEN text
            ELSE IF body.val.type = "object"
                    /\ \E i \in DOMAIN body.val.members : body.val.members[i].key = "message"
                 THEN Render(Lookup(body.val, "message"))
                 ELSE <<"Bad Request">>

\* upstream 400 with a JSON object that has no `message` field
C6_Witness ==
  /\ Called
  /\ call.upstream.status_code = 400
  /\ call.upstream.text = BodyFoo
  /\ call.outcome.status_code = 400

\* C7: an upstream answer with status 200 always ends the call with the
\* parsed payload returned, never with an error.
C7_PassThrough ==
  Called /\ call.upstream.kind = "response" /\ call.upstream.status_code = 200 =>
    /\ call.outcome.kind = "return"
    /\ call.outcome.value = Json(call.upstream.text).val

\* C8: each call issues exactly one GET, and its parameters carry API_KEY
\* under "apikey", whatever the caller passed.
C8_CredentialInjection ==
  Called =>
    /\ Len(call.gets) = 1
    /\ "apikey" \in DOMAIN call.gets[1].params
    /\ call.gets[1].params["apikey"] = API_KEY

\* a call whose caller supplied its own value under "apikey"
C8_Witness ==
  /\ Called
  /\ call.params # None
  /\ "apikey" \in DOMAIN call.params[1]
  /\ call.params[1]["apikey"] # API_KEY

\* C9: the answer to /indicators/{indicator} is 400 with the full registry
\* and no upstream call when the lowercase name is not registered, and
\* otherwise rests on exactly one upstream call.
C9_IndicatorGate ==
  Route(response.path) = "get_technical_indicator" =>
    LET name == Lower(IndicatorOf(response.path)) IN
    IF \E i \in DOMAIN TECHNICAL_INDICATORS : TECHNICAL_INDICATORS[i] = name
    THEN Len(response.gets) = 1
    ELSE /\ response.status = 400
         /\ response.body.detail.supported = TECHNICAL_INDICATORS
         /\ response.gets = << >>

\* an upper-case registered name was answered from the upstream
C9_Witness ==
  /\ response.path = PathIndicators \o <<"R","S","I">>
  /\ Len(response.gets) = 1
  /\ response.status = 200

\* C10: a request for an unsupported indicator is charged one quota unit by
\* the middleware, and no route handler gives a unit back.
C10_ChargesAttempt ==
  /\ [][\A path \in Paths :
          /\ Route(path) = "get_technical_indicator"
          /\ ~ InList(Lower(IndicatorOf(path)), TECHNICAL_INDICATORS)
          /\ Admitted(path)
          => request_count' = AfterResetCheck + 1]_vars
  /\ [][\A path \in Paths : Answered(path) => request_count' = request_count]_vars

====
